---------------------------- MODULE Spec2Model ----------------------------
(***************************************************************************)
(* BrowsingHistory (src/main.py): import of a browser history into the     *)
(* canonical store, aggregation over it and anonymization of its rows.     *)
(*                                                                         *)
(* Strings are sequences of one-character strings, so that the regular     *)
(* expressions and slices of the source are computed character by          *)
(* character.                                                              *)
(***************************************************************************)
EXTENDS Integers, Sequences, FiniteSets, TLC

VARIABLES
    db_urls,       \* canonical store, table urls: id -> row
    db_visits,     \* canonical store, table visits: id -> row
    _db,           \* self._db: "None" or the path of the canonical store
    _browser_name, \* self._browser_name
    _min_date,     \* self._min_date: the cutoff
    ready,         \* self.ready
    num_domains,   \* self.num_domains
    _domains,      \* self._domains: the last result of select_domains
    _keywords,     \* self._keywords: the last result of search_terms
    date_range,    \* self.date_range
    result,        \* the value returned (or the exception raised) by the last call
    op,            \* the last call and its arguments
    artifact,      \* the history file the last import read
    salt_draws,    \* number of uuid4 values drawn so far
    issued,        \* every (host, hashed host) pair _hash_domain has returned
    utc_offset,    \* local time minus UTC on the host (platform setting)
    clock,         \* datetime.today() on the host, as POSIX seconds
    shadow,        \* what the volume shadow copy does on the host
    uploads,       \* the WebCache files in the upload directory
    fn_arg,        \* argument of the pure function under study
    fn_res         \* the successive results of applying it

sessionVars == <<db_urls, db_visits, _db, _browser_name, _min_date, ready,
                 date_range, num_domains, _domains, _keywords, result, op, artifact,
                 salt_draws, issued, uploads>>
fnVars == <<fn_arg, fn_res>>
hostVars == <<utc_offset, clock, shadow>>
vars == <<sessionVars, hostVars, fnVars>>

(***************************************************************************)
(* Characters and character classes                                        *)
(***************************************************************************)
Lowers == {"a","b","c","d","e","f","g","h","i","j","k","l","m",
           "n","o","p","q","r","s","t","u","v","w","x","y","z"}
Uppers == {"A","B","C","D","E","F","G","H","I","J","K","L","M",
           "N","O","P","Q","R","S","T","U","V","W","X","Y","Z"}
Digits == {"0","1","2","3","4","5","6","7","8","9"}

\* [a-z0-9\.\-\:] of url_pattern
HostChars == Lowers \cup Digits \cup {".", "-", ":"}

\* [\w] of anonym_pattern
WordChars == Lowers \cup Uppers \cup Digits \cup {"_"}

\* s[i..j], empty when j < i
Slice(s, i, j) == IF j < i THEN <<>> ELSE SubSeq(s, i, j)

\* s has the literal p at position i
HasAt(s, i, p) ==
    /\ i >= 1
    /\ i + Len(p) - 1 <= Len(s)
    /\ SubSeq(s, i, i + Len(p) - 1) = p

\* the least element of a non-empty set of integers
Least(S) == CHOOSE x \in S : \A y \in S : x <= y

\* the last position of the longest run of characters of the class cls that
\* starts at position i (i - 1 when s[i] is not of the class)
RunEnd(s, i, cls) ==
    IF i > Len(s) THEN i - 1
    ELSE IF \A j \in i..Len(s) : s[j] \in cls THEN Len(s)
    ELSE Least({j \in i..Len(s) : s[j] \notin cls}) - 1

SchemeDelim == <<":", "/", "/">>
WwwPrefix   == <<"w", "w", "w", ".">>
AnonymWord  == <<"a","n","o","n","y","m","i","s","i","e","r","t","-">>
PathStars   == <<"/", "*", "*", "*">>
Null      == <<>>                  \* SQL NULL / None
SrcTitle  == <<"t">>               \* every source title
Stars     == <<"*", "*", "*">>     \* '***'

(***************************************************************************)
(* _is_url(url, r=True): the first match of (?<=\:\/\/)[a-z0-9\.\-\:]+ ,   *)
(* or the empty string where the source returns False.                     *)
(***************************************************************************)
UrlMatchAt(url, i) ==
    /\ HasAt(url, i - 3, SchemeDelim)
    /\ i <= Len(url)
    /\ url[i] \in HostChars

_is_url(url) ==
    LET starts == {i \in 1..Len(url) : UrlMatchAt(url, i)}
    IN  IF starts = {} THEN <<>>
        ELSE LET i == CHOOSE k \in starts : \A m \in starts : k <= m
             IN  Slice(url, i, RunEnd(url, i, HostChars))

IsNavigable(url) == _is_url(url) # <<>>

(***************************************************************************)
(* The first match of anonymisiert-[\w]+\-[\w]+ , or the empty string.     *)
(***************************************************************************)
AnonymEndAt(url, i) ==
    \* the end of the match that starts at i, 0 when there is none
    IF ~HasAt(url, i, AnonymWord) THEN 0
    ELSE LET a  == i + Len(AnonymWord)
             e1 == RunEnd(url, a, WordChars)
         IN  IF e1 < a \/ ~HasAt(url, e1 + 1, <<"-">>) THEN 0
             ELSE LET e2 == RunEnd(url, e1 + 2, WordChars)
                  IN  IF e2 < e1 + 2 THEN 0 ELSE e2

AnonymMatch(url) ==
    LET starts == {i \in 1..Len(url) : AnonymEndAt(url, i) # 0}
    IN  IF starts = {} THEN <<>>
        ELSE LET i == CHOOSE k \in starts : \A m \in starts : k <= m
             IN  Slice(url, i, AnonymEndAt(url, i))

(***************************************************************************)
(* _stem_url                                                               *)
(***************************************************************************)
_stem_url(url) ==
    LET stemmed_url == _is_url(url)
    IN  IF stemmed_url # <<>>
        THEN IF Len(stemmed_url) >= 4 /\ Slice(stemmed_url, 1, 4) = WwwPrefix
             THEN Slice(stemmed_url, 5, Len(stemmed_url))
             ELSE stemmed_url
        ELSE IF AnonymMatch(url) # <<>>
             THEN AnonymMatch(url)
             ELSE IF Len(url) >= 4 /\ Slice(url, Len(url) - 3, Len(url)) = PathStars
                  THEN Slice(url, 1, Len(url) - 4)
                  ELSE url

(***************************************************************************)
(* Time.  Unix time is counted in a coarse unit, the "second" of the       *)
(* model, and the program's constants are scaled to it so that native      *)
(* timestamps stay within TLC's integers.  The ratios between the native   *)
(* units (one tick is 0.1 microsecond) are those of the source.            *)
(***************************************************************************)
UsPerSec   == 4     \* 1000000 microseconds per second, scaled
TicksPerUs == 10    \* timestamp * 0.1: ten 100ns ticks per microsecond
Epoch1601  == 40    \* 11644473600 s from 1601-01-01 to 1970-01-01, scaled
Epoch2001  == 10    \* 978307200 s from 1970-01-01 to 2001-01-01, scaled
NumDays    == 6     \* _min_date(num_days=60), scaled
Hour       == 2     \* the size of a time zone's offset, scaled
ClockStart == 30    \* the host's clock when the session is constructed

TzOffsets == {0 - Hour, 0, Hour}
Browsers  == {"Chrome", "IE11", "Safari", "Firefox"}

\* datetime.timestamp() of a naive datetime: the wall-clock value (given here
\* in seconds after 1970-01-01 00:00) is read as local time
NaiveTimestamp(wall) == wall - utc_offset

\* datetime.fromtimestamp(x): the local wall-clock value of POSIX time x
FromTimestamp(x) == x + utc_offset

_convert_timestamp(timestamp, browser_name) ==
    IF browser_name = "Chrome"
    THEN NaiveTimestamp((timestamp \div UsPerSec) - Epoch1601)
    ELSE IF browser_name = "IE11"
    THEN NaiveTimestamp(((timestamp \div TicksPerUs) \div UsPerSec) - Epoch1601)
    ELSE IF browser_name = "Safari"
    THEN NaiveTimestamp(timestamp + Epoch2001)
    ELSE IF browser_name = "Firefox"
    THEN NaiveTimestamp(FromTimestamp(timestamp \div UsPerSec))
    ELSE NaiveTimestamp(FromTimestamp(timestamp))

\* _min_date(num_days): today - num_days, through datetime.today().timestamp()
MinDateAt(now, num_days) == NaiveTimestamp(FromTimestamp(now) - num_days)

\* The native encoding of the instant u (POSIX seconds) in each browser's
\* convention: the table of the timestamp normalizer read backwards.
NativeOf(u, browser_name) ==
    CASE browser_name = "Chrome"  -> (u + Epoch1601) * UsPerSec
      [] browser_name = "IE11"    -> (u + Epoch1601) * UsPerSec * TicksPerUs
      [] browser_name = "Safari"  -> u - Epoch2001
      [] browser_name = "Firefox" -> u * UsPerSec
      [] OTHER                    -> u

(***************************************************************************)
(* The session after __init__ on a host without a canonical store.         *)
(***************************************************************************)
EmptyTable == <<>>
NoCall == [name |-> "init"]

InitSession ==
    /\ clock = ClockStart
    /\ db_urls = EmptyTable
    /\ db_visits = EmptyTable
    /\ _db = "None"
    /\ _browser_name = "None"
    /\ _min_date = MinDateAt(clock, NumDays)
    /\ ready = FALSE
    /\ date_range = <<"None", "None">>
    /\ num_domains = 0
    /\ _domains = <<>>
    /\ _keywords = <<>>
    /\ result = [status |-> "None"]
    /\ op = NoCall
    /\ artifact = <<>>
    /\ salt_draws = 0
    /\ issued = <<>>

(***************************************************************************)
(* History files.  A file is a sequence of visit records                   *)
(*   [url, t, n, c]: the URL, the instant of the visit (POSIX seconds; the *)
(*   file holds it in the browser's native form, NativeOf), the visit or   *)
(*   access count the browser kept, and (WebCacheV01.dat) the id of the    *)
(*   History container that holds the record.                              *)
(* In the relational files the URL table has one row per distinct URL, in  *)
(* order of first visit, and the visit table one row per record.           *)
(***************************************************************************)

FirstIdx(art, u) ==
    CHOOSE k \in 1..Len(art) :
        /\ art[k].url = u
        /\ \A m \in 1..(k - 1) : art[m].url # u

\* the id of URL u in the source's URL table
SrcUrlId(art, u) ==
    Cardinality({FirstIdx(art, art[m].url) : m \in 1..FirstIdx(art, u)})

\* the native timestamp column of record j
SrcTime(art, j, browser_name) == NativeOf(art[j].t, browser_name)

\* re.match('^file:', s) and re.match('^file:///', s) of _regexp
FilePrefix    == <<"f","i","l","e",":">>
FilePrefixFf  == <<"f","i","l","e",":","/","/","/">>
_regexp(p, s) == HasAt(s, 1, p)

(***************************************************************************)
(* _import_data, relational files: the WHERE clauses of the two SELECTs.   *)
(***************************************************************************)
\* the cutoff condition on the visit table's native time
VisitTimeOk(native, browser_name, min_date) ==
    CASE browser_name = "Chrome"  -> (native \div UsPerSec) - Epoch1601 >= min_date
      [] browser_name = "Firefox" -> (native \div UsPerSec) >= min_date
      [] browser_name = "Safari"  -> native + Epoch2001 >= min_date

\* AND NOT REGEXP('^file:', urls.url), '^file:///' for Firefox
UrlClauseOk(url, browser_name) ==
    IF browser_name = "Firefox" THEN ~_regexp(FilePrefixFf, url)
    ELSE ~_regexp(FilePrefix, url)

\* The canonical columns the BrowserSpec mapping selects: the visit time as
\* Unix seconds (the conversion the WHERE clause applies).
CanonicalVisitDate(native, browser_name) ==
    CASE browser_name = "Chrome"  -> (native \div UsPerSec) - Epoch1601
      [] browser_name = "Firefox" -> native \div UsPerSec
      [] browser_name = "Safari"  -> native + Epoch2001

\* a column that may be NULL holds Null or the one-element sequence of its
\* value
CanonicalUrlRow(id, url, title, visit_count, last_visit_date, redirect_urls) ==
    [id |-> id, url |-> url, title |-> title, rev_host |-> Null,
     visit_count |-> visit_count, last_visit_date |-> last_visit_date,
     redirect_urls |-> redirect_urls]

\* SELECT ... FROM visits WHERE <cutoff>
RelationalVisits(art, browser_name, min_date) ==
    LET keep == {j \in 1..Len(art) :
                    VisitTimeOk(SrcTime(art, j, browser_name), browser_name, min_date)}
        row(j) == [id |-> j, url_id |-> SrcUrlId(art, art[j].url),
                   visit_date |-> CanonicalVisitDate(SrcTime(art, j, browser_name),
                                                     browser_name)]
    IN  [k \in 1..Cardinality(keep) |->
            row(CHOOSE j \in keep : Cardinality({m \in keep : m <= j}) = k)]

\* SELECT ... FROM urls, visits WHERE urls.id = visits.url AND <cutoff>
\* AND NOT REGEXP(...): one row per joined visit
RelationalUrls(art, browser_name, min_date) ==
    LET keep == {j \in 1..Len(art) :
                    /\ VisitTimeOk(SrcTime(art, j, browser_name), browser_name, min_date)
                    /\ UrlClauseOk(art[j].url, browser_name)}
        row(j) == LET f == FirstIdx(art, art[j].url)
                  IN  CanonicalUrlRow(SrcUrlId(art, art[j].url), art[j].url, SrcTitle,
                                      art[f].n, Null, Null)
    IN  [k \in 1..Cardinality(keep) |->
            row(CHOOSE j \in keep : Cardinality({m \in keep : m <= j}) = k)]

(***************************************************************************)
(* _extract_history_plist                                                  *)
(***************************************************************************)
RECURSIVE PlistLoop(_, _, _, _, _)
PlistLoop(art, j, g, min_date, acc) ==
    \* g: the next value of the identifier generator
    IF j > Len(art) THEN acc
    ELSE LET date == _convert_timestamp(SrcTime(art, j, "Safari"), "Safari")
         IN  IF IsNavigable(art[j].url) /\ date >= min_date
             THEN PlistLoop(art, j + 1, g + 1, min_date,
                    [urls   |-> Append(acc.urls,
                                  CanonicalUrlRow(g, art[j].url, SrcTitle, art[j].n,
                                                  <<date>>, Null)),
                     visits |-> Append(acc.visits,
                                  [url_id |-> g, visit_date |-> date])])
             ELSE PlistLoop(art, j + 1, g, min_date, acc)

_extract_history_plist(art, min_date) ==
    PlistLoop(art, 1, 1, min_date, [urls |-> <<>>, visits |-> <<>>])

(***************************************************************************)
(* _extract_webcachev01_dat                                                *)
(***************************************************************************)
VisitedPrefix == <<"u", "@">>      \* 'Visited: user@', shortened
HttpWord      == <<"h", "t", "t", "p">>
IEUrlChars    == WordChars \cup {":", "_", "-", "/", "."}

\* the first match of (?<=@)http[\w:\_\-/.]+ , or the empty string
IEMatchAt(raw, i) ==
    /\ HasAt(raw, i - 1, <<"@">>)
    /\ HasAt(raw, i, HttpWord)
    /\ RunEnd(raw, i + 4, IEUrlChars) >= i + 4

IEMatch(raw) ==
    LET starts == {i \in 1..Len(raw) : IEMatchAt(raw, i)}
    IN  IF starts = {} THEN <<>>
        ELSE LET i == CHOOSE k \in starts : \A m \in starts : k <= m
             IN  Slice(raw, i, RunEnd(raw, i + 4, IEUrlChars))

\* int(str(a) + str(b)) for a, b >= 0
RECURSIVE Pow10Above(_)
Pow10Above(b) == IF b < 10 THEN 10 ELSE 10 * Pow10Above(b \div 10)
DecimalConcat(a, b) == a * Pow10Above(b) + b

\* urls.keys() position of url, 0 when absent
KeyIndex(urls, url) ==
    IF \E k \in 1..Len(urls) : urls[k].url = url
    THEN CHOOSE k \in 1..Len(urls) : urls[k].url = url
    ELSE 0

MutAddAccessCount(old, access_count) == old + access_count

\* the update of an existing URL's access count
AddAccessCount(old, access_count) ==
    IF access_count > 0 THEN old + access_count ELSE old

RECURSIVE WebCacheLoop(_, _, _, _, _)
WebCacheLoop(art, j, g, min_date, acc) ==
    IF j > Len(art) THEN acc
    ELSE LET date == _convert_timestamp(SrcTime(art, j, "IE11"), "IE11")
             url  == IEMatch(VisitedPrefix \o art[j].url)
             at   == KeyIndex(acc.urls, url)
         IN  IF url # <<>> /\ date >= min_date
             THEN IF at = 0
                  THEN WebCacheLoop(art, j + 1, g + 1, min_date,
                         [urls   |-> Append(acc.urls,
                                       [unique_id |-> g, url |-> url,
                                        access_count |-> art[j].n,
                                        redirect_urls |-> Null]),
                          visits |-> Append(acc.visits,
                                       [id |-> DecimalConcat(art[j].c, g),
                                        url_id |-> g, visit_date |-> date])])
                  ELSE WebCacheLoop(art, j + 1, g, min_date,
                         [acc EXCEPT !.urls[at].access_count =
                                        AddAccessCount(@, art[j].n)])
             ELSE WebCacheLoop(art, j + 1, g, min_date, acc)

_extract_webcachev01_dat(art, min_date) ==
    LET r == WebCacheLoop(art, 1, 1, min_date, [urls |-> <<>>, visits |-> <<>>])
    IN  [urls   |-> [k \in 1..Len(r.urls) |->
                        CanonicalUrlRow(r.urls[k].unique_id, r.urls[k].url, Null,
                                        r.urls[k].access_count, Null,
                                        r.urls[k].redirect_urls)],
         visits |-> r.visits]

(***************************************************************************)
(* The canonical store.  Both tables have the integer primary key id; a    *)
(* row inserted without an id gets the next rowid.                         *)
(***************************************************************************)
HasId(row) == "id" \in DOMAIN row

MaxKey(table) ==
    IF DOMAIN table = {} THEN 0
    ELSE CHOOSE k \in DOMAIN table : \A m \in DOMAIN table : m <= k

WithoutId(row) == [f \in (DOMAIN row) \ {"id"} |-> row[f]]

\* INSERT OR IGNORE INTO table VALUES row
Stored(table, id, row) ==
    [k \in (DOMAIN table) \cup {id} |-> IF k = id THEN row ELSE table[k]]

InsertOrIgnore(table, row) ==
    IF HasId(row)
    THEN IF row.id \in DOMAIN table THEN table
         ELSE Stored(table, row.id, WithoutId(row))
    ELSE Stored(table, MaxKey(table) + 1, row)

\* executemany(query, r)
RECURSIVE ExecuteMany(_, _)
ExecuteMany(table, r) ==
    IF r = <<>> THEN table
    ELSE ExecuteMany(InsertOrIgnore(table, Head(r)), Tail(r))

(***************************************************************************)
(* Ordered dictionaries are sequences of <<key, value>> pairs.             *)
(***************************************************************************)
\* position of key in d, 0 when absent
PairIndex(d, key) ==
    IF \E k \in 1..Len(d) : d[k][1] = key
    THEN CHOOSE k \in 1..Len(d) : d[k][1] = key
    ELSE 0

Keys(d) == {d[k][1] : k \in 1..Len(d)}
Get(d, key) == d[PairIndex(d, key)][2]

RemoveAt(q, m) == [k \in 1..(Len(q) - 1) |-> IF k < m THEN q[k] ELSE q[k + 1]]

RECURSIVE SumCounts(_)
SumCounts(d) == IF d = <<>> THEN 0 ELSE Head(d)[2] + SumCounts(Tail(d))

\* sorted(d.items(), key=lambda t: t[1]): stable, ascending
RECURSIVE SortByCount(_)
SortByCount(d) ==
    IF d = <<>> THEN <<>>
    ELSE LET m == CHOOSE k \in 1..Len(d) :
                    /\ \A j \in 1..Len(d) : d[k][2] <= d[j][2]
                    /\ \A j \in 1..(k - 1) : d[j][2] > d[k][2]
         IN  <<d[m]>> \o SortByCount(RemoveAt(d, m))

\* q[-n:] and q[:n] of Python, for every integer n
SliceLast(q, n) ==
    LET start == IF n > 0 THEN (IF Len(q) - n > 0 THEN Len(q) - n ELSE 0)
                 ELSE (IF 0 - n < Len(q) THEN 0 - n ELSE Len(q))
    IN  Slice(q, start + 1, Len(q))

SliceFirst(q, n) ==
    LET stop == IF n < 0 THEN (IF Len(q) + n > 0 THEN Len(q) + n ELSE 0)
                ELSE (IF n < Len(q) THEN n ELSE Len(q))
    IN  Slice(q, 1, stop)

(***************************************************************************)
(* visits(date=False, n, ascending, plot=False)                            *)
(***************************************************************************)
\* SELECT url, visit_count, urls.id FROM urls, visits
\* WHERE urls.id = visits.url_id, in the order of the visit rows
JoinedVisits(urls, visits) ==
    LET keep == {v \in DOMAIN visits : visits[v].url_id \in DOMAIN urls}
        row(v) == LET u == visits[v].url_id
                  IN  <<urls[u].url, urls[u].visit_count, u>>
    IN  [k \in 1..Cardinality(keep) |->
            row(CHOOSE v \in keep : Cardinality({m \in keep : m <= v}) = k)]

MutCountsOnce(id, unique_id) == TRUE

\* whether a visit row adds its URL's visit_count to the domain's total
CountsOnce(id, unique_id) == id \notin unique_id

\* d[domain] = 0 when domain is not a key of d
EnsureKey(d, domain) ==
    IF PairIndex(d, domain) = 0 THEN Append(d, <<domain, 0>>) ELSE d

\* d[domain] += count when once holds
AddVisit(d, domain, count, once) ==
    IF once THEN [d EXCEPT ![PairIndex(d, domain)] = <<domain, @[2] + count>>]
    ELSE d

RECURSIVE VisitsLoop(_, _, _)
VisitsStep(rows, d, unique_id, domain, count, id) ==
    VisitsLoop(Tail(rows),
               AddVisit(EnsureKey(d, domain), domain, count,
                        CountsOnce(id, unique_id)),
               unique_id \cup {id})

VisitsLoop(rows, d, unique_id) ==
    IF rows = <<>> THEN d
    ELSE VisitsStep(rows, d, unique_id,
                    _stem_url(Head(rows)[1]), Head(rows)[2], Head(rows)[3])

\* the dictionary d of domain totals
VisitTotals(urls, visits) == VisitsLoop(JoinedVisits(urls, visits), <<>>, {})

\* the percentage list divides by total_n
TotalsRaise(d) == d # <<>> /\ SumCounts(d) = 0

\* sorted(d.items())[-n:] or [:n]
SelectN(sorted, n, ascending) ==
    IF ~ascending THEN SliceLast(sorted, n) ELSE SliceFirst(sorted, n)

\* the OrderedDict visits returns for the totals d; n is Null for n = None
\* and <<k>> for the integer k
VisitsSelect(d, n, ascending) ==
    SelectN(SortByCount(d), IF n = Null THEN SumCounts(d) ELSE n[1], ascending)

VisitsOf(urls, visits, n, ascending) ==
    VisitsSelect(VisitTotals(urls, visits), n, ascending)

(***************************************************************************)
(* _date_range: the earliest and latest visit_date as local dates          *)
(***************************************************************************)
\* _get_date: datetime.fromtimestamp(x).strftime(...), the local time as text
_get_date(x) == ToString(FromTimestamp(x))

_date_range(visits) ==
    LET dates == {visits[v].visit_date : v \in DOMAIN visits}
    IN  IF dates = {} THEN <<" ", " ">>
        ELSE LET lo == CHOOSE x \in dates : \A y \in dates : x <= y
                 hi == CHOOSE x \in dates : \A y \in dates : y <= x
             IN  IF lo # 0 /\ hi # 0 THEN <<_get_date(lo), _get_date(hi)>>
                 ELSE <<" ", " ">>

(***************************************************************************)
(* _import_data and load                                                   *)
(***************************************************************************)
Extractors == {"Chrome", "Firefox", "SafariDb", "SafariPlist", "IE11"}

BrowserOf(kind) == IF kind \in {"SafariDb", "SafariPlist"} THEN "Safari" ELSE kind

\* the two record streams of one import
Streams(kind, art, min_date) ==
    CASE kind = "SafariPlist" -> _extract_history_plist(art, min_date)
      [] kind = "IE11"        -> _extract_webcachev01_dat(art, min_date)
      [] OTHER -> [urls   |-> RelationalUrls(art, BrowserOf(kind), min_date),
                   visits |-> RelationalVisits(art, BrowserOf(kind), min_date)]

\* _import_data on the store <<urls, visits>>: the tables after the writes
_import_data(urls, visits, kind, art, min_date) ==
    LET r == Streams(kind, art, min_date)
    IN  [urls   |-> ExecuteMany(urls, r.urls),
         visits |-> ExecuteMany(visits, r.visits)]

StorePath == "tmp/browsing_history.db"

\* the file names of the WebCache files and of the other history files
WebCacheV01 == "WebCacheV01.dat"
WebCacheV24 == "WebCacheV24.dat"
WebCacheNames == {WebCacheV01, WebCacheV24}
DefaultFile(kind) == IF kind = "IE11" THEN WebCacheV01 ELSE "History"

\* an upload directory entry: whether the file is there, whether it is an
\* ESE database with the Containers table, and its History records
NoFile == [present |-> FALSE, ok |-> TRUE, art |-> <<>>]
EmptyUploads == [f \in WebCacheNames |-> NoFile]

\* _copy_webcachev01_dat: the upload directory after the step, and the values
\* the step can return.  When shutil.copy raises, the return False of the
\* handler is replaced by the return True of the finally clause, unless the
\* second sc.delete() raises, which the outer handler turns into False.
UploadsAfterCopy(file, ok, art) ==
    IF shadow = "copied"
    THEN [uploads EXCEPT ![file] = [present |-> TRUE, ok |-> ok, art |-> art]]
    ELSE uploads

CopyReturns ==
    CASE shadow = "copied"      -> {TRUE}
      [] shadow = "unavailable" -> {FALSE}
      [] shadow = "copy_failed" -> BOOLEAN

\* _extract_webcachev01_dat, the choice of file_name and the open(): the file
\* it opens, or the way the call ends
ResolveWebCache(up, file, copied) ==
    IF copied
    THEN IF up[file].present THEN [end |-> "open", name |-> file]
         ELSE [end |-> "FileNotFoundError", name |-> file]
    ELSE IF up[WebCacheV01].present THEN [end |-> "open", name |-> WebCacheV01]
    ELSE IF up[WebCacheV24].present
         THEN [end |-> "UnboundLocalError", name |-> WebCacheV24]
    ELSE [end |-> "False", name |-> file]

\* the end of load once _import_data has returned True: db is the store and
\* d the totals that visits(n=None) computes on it
LoadFinish(kind, file, art, md, cutoff, db, d) ==
    /\ _db' = StorePath
    /\ _browser_name' = BrowserOf(kind)
    /\ _min_date' = cutoff
    /\ db_urls' = db.urls
    /\ db_visits' = db.visits
    /\ date_range' = _date_range(db.visits)
    /\ num_domains' = IF TotalsRaise(d) THEN num_domains
                      ELSE Len(VisitsSelect(d, Null, FALSE))
    /\ ready' = IF TotalsRaise(d) THEN ready ELSE TRUE
    /\ result' = IF TotalsRaise(d) THEN [status |-> "ZeroDivisionError"]
                 ELSE [status |-> "True"]
    /\ op' = [name |-> "load", kind |-> kind, min_date |-> md, file |-> file]
    /\ artifact' = art
    /\ UNCHANGED <<_domains, _keywords, salt_draws, issued, hostVars, fnVars>>

LoadImport(kind, file, art, md, cutoff, db) ==
    LoadFinish(kind, file, art, md, cutoff, db, VisitTotals(db.urls, db.visits))

\* load on a history file that is read: _import_data fills the new store
LoadWith(kind, file, art, md, cutoff) ==
    LoadImport(kind, file, art, md, cutoff,
               _import_data(EmptyTable, EmptyTable, kind, art, cutoff))

\* load when _import_data returns False (status "False") or raises: the store
\* has been created anew, and ready, date_range and num_domains are not
\* assigned
LoadFails(kind, file, md, cutoff, status) ==
    /\ _db' = StorePath
    /\ _browser_name' = BrowserOf(kind)
    /\ _min_date' = cutoff
    /\ db_urls' = EmptyTable
    /\ db_visits' = EmptyTable
    /\ result' = [status |-> status]
    /\ op' = [name |-> "load", kind |-> kind, min_date |-> md, file |-> file]
    /\ artifact' = <<>>
    /\ UNCHANGED <<ready, date_range, num_domains, _domains, _keywords,
                   salt_draws, issued, hostVars, fnVars>>

\* if min_date: self._min_date = min_date; md = 0 stands for min_date=None
CutoffOf(md) == IF md # 0 THEN md ELSE _min_date

\* load of a WebCache file: the live file has the records art (ok: it has
\* the Containers table); copied is what the shadow copy step returned
LoadResolved(file, md, up, r) ==
    /\ uploads' = up
    /\ IF r.end = "open"
       THEN IF up[r.name].ok
            THEN LoadWith("IE11", file, up[r.name].art, md, CutoffOf(md))
            ELSE LoadFails("IE11", file, md, CutoffOf(md), "AttributeError")
       ELSE LoadFails("IE11", file, md, CutoffOf(md), r.end)

LoadWebCacheFile(file, ok, art, md, copied) ==
    LoadResolved(file, md, UploadsAfterCopy(file, ok, art),
                 ResolveWebCache(UploadsAfterCopy(file, ok, art), file, copied))

\* load(file_path, browser_name, min_date) on the well-formed history file art
load(kind, art, md) ==
    IF kind = "IE11"
    THEN \E copied \in CopyReturns :
            LoadWebCacheFile(DefaultFile(kind), TRUE, art, md, copied)
    ELSE /\ LoadWith(kind, DefaultFile(kind), art, md, CutoffOf(md))
         /\ UNCHANGED uploads

\* _import_data called once more on the file of the last load
ImportInto(db) ==
    /\ db_urls' = db.urls
    /\ db_visits' = db.visits

ImportAgain ==
    /\ op.name = "load"
    /\ result.status = "True"
    /\ ImportInto(_import_data(db_urls, db_visits, op.kind, artifact, _min_date))
    /\ op' = [name |-> "_import_data", kind |-> op.kind]
    /\ result' = [status |-> "True"]
    /\ UNCHANGED <<_db, _browser_name, _min_date, ready, date_range, num_domains,
                   _domains, _keywords, artifact, salt_draws, issued, uploads,
                   hostVars, fnVars>>

(***************************************************************************)
(* Imports: one load of a history file of each format, then the same file  *)
(* written once more.                                                      *)
(***************************************************************************)
MaxRecs == 2

DefaultCutoff == ClockStart - NumDays
GivenCutoff   == DefaultCutoff - 2

UrlA    == <<"h","t","t","p",":","/","/","a",".","b","/">>
UrlAQ   == UrlA \o <<"?","q","=","x">>
UrlFile == <<"f","i","l","e",":","/","/","/","f">>

ImportRecords(kind) ==
    [url : {UrlA, UrlAQ, UrlFile},
     t   : {DefaultCutoff - 1, DefaultCutoff + 1},
     n   : IF kind = "IE11" THEN {-1, 3, 5} ELSE {3},
     c   : {1}]

RECURSIVE SeqsUpTo(_, _)
SeqsUpTo(S, n) ==
    IF n = 0 THEN {<<>>}
    ELSE SeqsUpTo(S, n - 1) \cup
         {Append(q, x) : q \in {p \in SeqsUpTo(S, n - 1) : Len(p) = n - 1}, x \in S}

InitImport ==
    /\ utc_offset \in TzOffsets
    /\ shadow = "copied"
    /\ uploads = EmptyUploads
    /\ InitSession
    /\ fn_arg = <<>>
    /\ fn_res = <<>>

LoadRelational ==
    /\ op.name = "init"
    /\ \E kind \in {"Chrome", "Firefox", "SafariDb"}, md \in {0, GivenCutoff} :
         \E art \in SeqsUpTo(ImportRecords(kind), MaxRecs) : load(kind, art, md)

LoadPlist ==
    /\ op.name = "init"
    /\ \E md \in {0, GivenCutoff} :
         \E art \in SeqsUpTo(ImportRecords("SafariPlist"), MaxRecs) :
            load("SafariPlist", art, md)

LoadWebCache ==
    /\ op.name = "init"
    /\ \E md \in {0, GivenCutoff} :
         \E art \in SeqsUpTo(ImportRecords("IE11"), MaxRecs) : load("IE11", art, md)

NextImport == LoadRelational \/ LoadPlist \/ LoadWebCache \/ ImportAgain
SpecImport == InitImport /\ [][NextImport]_vars

RelationalKinds == {"Chrome", "Firefox", "SafariDb"}

\* C3: writing the streams of the same file into the canonical store a second
\* time leaves the row counts of urls and visits as they were.
SecondWriteKeepsRowCounts ==
    [][op'.name = "_import_data" =>
        /\ Cardinality(DOMAIN db_urls') = Cardinality(DOMAIN db_urls)
        /\ Cardinality(DOMAIN db_visits') = Cardinality(DOMAIN db_visits)]_vars

\* a URL every extractor takes for a web page
IsWebPage(url) == IsNavigable(url) /\ HasAt(url, 1, HttpWord)

\* the imported file holds web pages only, each URL visited once
WebPagesOnly(art) ==
    /\ \A j \in 1..Len(art) : IsWebPage(art[j].url)
    /\ \A j, k \in 1..Len(art) : j # k => art[j].url # art[k].url

\* the imported file holds two visits of web pages, one before the cutoff
\* and one at or after it
OneOlderOneNewer(art, cutoff) ==
    /\ Len(art) = 2
    /\ IsWebPage(art[1].url) /\ IsWebPage(art[2].url)
    /\ \/ art[1].t < cutoff /\ art[2].t >= cutoff
       \/ art[2].t < cutoff /\ art[1].t >= cutoff

\* C4: after an import no stored visit date is before the cutoff of that
\* import, the stored dates are the Unix seconds of the visits the file holds
\* at or after that cutoff, and of one visit newer and one older than the
\* cutoff exactly one canonical visit is kept.
ImportKeepsVisitsSinceCutoff ==
    op.name = "load" =>
        /\ \A v \in DOMAIN db_visits : db_visits[v].visit_date >= _min_date
        /\ (WebPagesOnly(artifact) /\ op.kind # "IE11") =>
              Cardinality(DOMAIN db_visits)
                = Cardinality({j \in 1..Len(artifact) : artifact[j].t >= _min_date})
        /\ OneOlderOneNewer(artifact, _min_date) =>
              Cardinality(DOMAIN db_visits) = 1

\* the same on a host whose local time is UTC
ImportKeepsVisitsSinceCutoffUTC == utc_offset = 0 => ImportKeepsVisitsSinceCutoff

\* the records the indexed-database extractor accepts, and the URL it recovers
Recovered(art, j) == IEMatch(VisitedPrefix \o art[j].url)
Accepted(art, min_date) ==
    {j \in 1..Len(art) :
        /\ Recovered(art, j) # <<>>
        /\ _convert_timestamp(SrcTime(art, j, "IE11"), "IE11") >= min_date}

RECURSIVE SumOver(_, _)
SumOver(art, js) ==
    IF js = {} THEN 0
    ELSE LET j == CHOOSE x \in js : TRUE IN art[j].n + SumOver(art, js \ {j})

ExpectedAccessCount(art, min_date, url) ==
    LET same  == {j \in Accepted(art, min_date) : Recovered(art, j) = url}
        first == CHOOSE j \in same : \A k \in same : j <= k
    IN  art[first].n + SumOver(art, {j \in same : j > first /\ art[j].n > 0})

\* C5: the indexed-database import holds one URL row per recovered URL, whose
\* visit_count is the access count of the first accepted sighting plus the
\* strictly positive access counts of the later ones.
WebCacheSumsPositiveCounts ==
    (op.name = "load" /\ op.kind = "IE11") =>
        \A j \in Accepted(artifact, _min_date) :
            LET rows == {u \in DOMAIN db_urls :
                            db_urls[u].url = Recovered(artifact, j)}
            IN  /\ Cardinality(rows) = 1
                /\ \A u \in rows :
                      db_urls[u].visit_count
                        = ExpectedAccessCount(artifact, _min_date,
                                              Recovered(artifact, j))

\* two accepted sightings of one URL with access counts 3 and 5 gave 8
WebCacheThreeAndFive ==
    /\ op.name = "load" /\ op.kind = "IE11"
    /\ Len(artifact) = 2
    /\ Accepted(artifact, _min_date) = {1, 2}
    /\ artifact[1].n = 3 /\ artifact[2].n = 5
    /\ \E u \in DOMAIN db_urls : db_urls[u].visit_count = 8
    /\ Cardinality(DOMAIN db_urls) = 1

\* C10: after an import by any extractor no canonical visit belongs to a
\* file-scheme URL of the source.
NoVisitOfFileUrl ==
    op.name = "load" =>
        \A v \in DOMAIN db_visits :
            IF op.kind \in RelationalKinds
            THEN ~_regexp(FilePrefix, artifact[v].url)
            ELSE /\ db_visits[v].url_id \in DOMAIN db_urls
                 /\ ~_regexp(FilePrefix, db_urls[db_visits[v].url_id].url)

(***************************************************************************)
(* Domain stemming applied to a string, and again to its result.           *)
(***************************************************************************)
MaxPieces == 3

StemPieces == {
    <<"h","t","t","p",":","/","/">>,
    WwwPrefix,
    <<"a",".","b">>,
    <<"/","p">>,
    PathStars,
    AnonymWord \o <<"x","-","y">>,
    <<"-","1">> }

RECURSIVE Concats(_)
Concats(n) ==
    IF n = 0 THEN {<<>>}
    ELSE Concats(n - 1) \cup {s \o p : s \in Concats(n - 1), p \in StemPieces}

InitStem ==
    /\ utc_offset = 0
    /\ shadow = "copied"
    /\ uploads = EmptyUploads
    /\ InitSession
    /\ fn_arg \in Concats(MaxPieces)
    /\ fn_res = <<>>

StemUrl ==
    /\ Len(fn_res) < 2
    /\ fn_res' = Append(fn_res, _stem_url(IF fn_res = <<>> THEN fn_arg
                                          ELSE fn_res[Len(fn_res)]))
    /\ UNCHANGED <<sessionVars, hostVars, fn_arg>>

NextStem == StemUrl
SpecStem == InitStem /\ [][NextStem]_vars

\* C1: stemming is idempotent: stemming the stem of a string returns the stem.
StemIdempotent == Len(fn_res) = 2 => fn_res[2] = fn_res[1]

(***************************************************************************)
(* The timestamp normalizer applied to the native form of an instant.      *)
(***************************************************************************)
MaxInstant == 12

InitTime ==
    /\ utc_offset \in TzOffsets
    /\ shadow = "copied"
    /\ uploads = EmptyUploads
    /\ InitSession
    /\ fn_arg \in [browser : Browsers \cup {"None"}, instant : 0..MaxInstant]
    /\ fn_res = <<>>

ConvertTimestamp ==
    /\ fn_res = <<>>
    /\ fn_res' = <<_convert_timestamp(NativeOf(fn_arg.instant, fn_arg.browser),
                                      fn_arg.browser)>>
    /\ UNCHANGED <<sessionVars, hostVars, fn_arg>>

NextTime == ConvertTimestamp
SpecTime == InitTime /\ [][NextTime]_vars

\* C8: normalizing the native form of an instant returns the instant within
\* one second, for each of the four conventions, and an unknown browser's
\* timestamp is returned unchanged.
RoundTripWithinOneSecond ==
    fn_res # <<>> =>
        /\ fn_res[1] - fn_arg.instant \in {-1, 0, 1}
        /\ fn_arg.browser = "None" => fn_res[1] = fn_arg.instant

(***************************************************************************)
(* Text: code points, comparison, case folding, digits                     *)
(***************************************************************************)
\* the printable ASCII characters in code point order, from ' ' (32); the
\* grave accent is written U+60
Ascii == <<
    " ", "!", "\"", "#", "$", "%", "&", "'", "(", ")", "*", "+", ",", "-", ".", "/",
    "0", "1", "2", "3", "4", "5", "6", "7", "8", "9", ":", ";", "<", "=", ">", "?",
    "@", "A", "B", "C", "D", "E", "F", "G", "H", "I", "J", "K", "L", "M", "N", "O",
    "P", "Q", "R", "S", "T", "U", "V", "W", "X", "Y", "Z", "[", "\\", "]", "^", "_",
    "U+60", "a", "b", "c", "d", "e", "f", "g", "h", "i", "j", "k", "l", "m", "n", "o",
    "p", "q", "r", "s", "t", "u", "v", "w", "x", "y", "z", "{", "|", "}", "~" >>

\* ord(c) and chr(code); a code outside the table gives the mark "U+"
Ord(c) == 31 + (CHOOSE k \in 1..Len(Ascii) : Ascii[k] = c)
Chr(code) == IF code >= 32 /\ code <= 126 THEN Ascii[code - 31] ELSE "U+"

\* a < b of two str values: the first position where they differ decides
Differ(a, b) == {k \in 1..Len(a) : k <= Len(b) /\ a[k] # b[k]}

StrLess(a, b) ==
    IF Differ(a, b) = {} THEN Len(a) < Len(b)
    ELSE Ord(a[Least(Differ(a, b))]) < Ord(b[Least(Differ(a, b))])

\* re.IGNORECASE folds the letters
ToLower(c) == IF c \in Uppers THEN Chr(Ord(c) + 32) ELSE c

HexDigits == <<"0", "1", "2", "3", "4", "5", "6", "7", "8", "9",
               "a", "b", "c", "d", "e", "f">>
IsHex(c) == \E k \in 1..Len(HexDigits) : HexDigits[k] = ToLower(c)
HexVal(c) == (CHOOSE k \in 1..Len(HexDigits) : HexDigits[k] = ToLower(c)) - 1

\* str(i) and '{}'.format(i) of an integer i >= 0
RECURSIVE Str(_)
Str(i) ==
    IF i < 10 THEN <<HexDigits[i + 1]>>
    ELSE Str(i \div 10) \o <<HexDigits[(i % 10) + 1]>>

\* whether the string p occurs in the string s
Contains(s, p) == \E i \in 1..(Len(s) + 1) : HasAt(s, i, p)

\* sorted(q, key=...): stable; by descending count for "frequency", by key otherwise
KeyBefore(a, b) == StrLess(a[1], b[1])
CountAfter(a, b) == a[2].count > b[2].count
SortsBefore(a, b, sort_by) ==
    IF sort_by = "frequency" THEN CountAfter(a, b) ELSE KeyBefore(a, b)

SortRank(q, i, sort_by) ==
    1 + Cardinality({j \in 1..Len(q) :
                        \/ SortsBefore(q[j], q[i], sort_by)
                        \/ ~SortsBefore(q[i], q[j], sort_by) /\ j < i})

StableSort(q, sort_by) ==
    [k \in 1..Len(q) |-> q[CHOOSE i \in 1..Len(q) : SortRank(q, i, sort_by) = k]]

\* the keys of a table in rowid order
RECURSIVE IdsAsc(_)
IdsAsc(ids) ==
    IF ids = {} THEN <<>>
    ELSE LET m == CHOOSE x \in ids : \A y \in ids : x <= y
         IN  <<m>> \o IdsAsc(ids \ {m})

(***************************************************************************)
(* The search-term pattern: one of the parameter prefixes, then a run of   *)
(* term characters (the group).  The accented letters of the class are not *)
(* in the alphabet of the strings studied here.                            *)
(***************************************************************************)
AnyDigit == "\\d"

\* the alternatives in the order of the pattern; search?q= is searchq= or
\* searcq=
KeywordPrefixes == <<
    <<"?", "q", "=">>,
    <<"?", "p", "=">>,
    <<"?", "q", "u", "e", "r", "y", "=">>,
    <<"s", "e", "a", "r", "c", "h", "q", "=">>,
    <<"s", "e", "a", "r", "c", "q", "=">>,
    <<"?", "q", AnyDigit, "=">>,
    <<"&", "q", AnyDigit, "=">>,
    <<"?", "k", "=">>,
    <<"?", "t", "e", "x", "t", "=">>,
    <<"&", "q", "=">>,
    <<"k", "e", "y", "=">>,
    <<"?", "s", "e", "a", "r", "c", "h", "=">>,
    <<"&", "s", "e", "a", "r", "c", "h", "=">>,
    <<"&", "s", "e", "a", "r", "c", "h", "t", "e", "r", "m", "=">>,
    <<"?", "s", "e", "a", "r", "c", "h", "t", "e", "r", "m", "=">>
    >>

\* [a-zA-Z0-9...\%\+\-\*\s\.\,] of search_terms, and the class of _update_db
\* that has neither '.' nor ','
TermChars == Lowers \cup Uppers \cup Digits \cup {"%", "+", "-", "*", " ", ".", ","}
UpdateTermChars == Lowers \cup Uppers \cup Digits \cup {"%", "+", "-", "*", " "}

PrefixAt(s, i, p) ==
    /\ i + Len(p) - 1 <= Len(s)
    /\ \A k \in 1..Len(p) :
          IF p[k] = AnyDigit THEN s[i + k - 1] \in Digits
          ELSE ToLower(s[i + k - 1]) = p[k]

\* the alternative that matches at position i, 0 when none does
FirstAlt(s, i, cls) ==
    LET alts == {a \in 1..Len(KeywordPrefixes) :
                    /\ PrefixAt(s, i, KeywordPrefixes[a])
                    /\ i + Len(KeywordPrefixes[a]) <= Len(s)
                    /\ s[i + Len(KeywordPrefixes[a])] \in cls}
    IN  IF alts = {} THEN 0 ELSE CHOOSE a \in alts : \A b \in alts : a <= b

\* the successive non-overlapping matches from position i on: each match
\* spans from..to and its group grp..to
RECURSIVE FindAll(_, _, _)
FoundTo(s, i, g, e, cls) ==
    <<[from |-> i, grp |-> g, to |-> e]>> \o FindAll(s, e + 1, cls)

FoundAlt(s, i, a, cls) ==
    FoundTo(s, i, i + Len(KeywordPrefixes[a]),
            RunEnd(s, i + Len(KeywordPrefixes[a]), cls), cls)

FoundAt(s, i, cls) == FoundAlt(s, i, FirstAlt(s, i, cls), cls)

FindAll(s, i, cls) ==
    IF \A j \in i..Len(s) : FirstAlt(s, j, cls) = 0 THEN <<>>
    ELSE FoundAt(s, Least({j \in i..Len(s) : FirstAlt(s, j, cls) # 0}), cls)

\* re.findall(pat, url): the groups of the matches ms
GroupsOf(s, ms) == [k \in 1..Len(ms) |-> SubSeq(s, ms[k].grp, ms[k].to)]
Groups(s, cls) == GroupsOf(s, FindAll(s, 1, cls))

\* re.sub(pat, repl, s) over the matches ms, from position pos on
RECURSIVE ReSubFrom(_, _, _, _)
ReSubFrom(s, pos, ms, repl) ==
    IF ms = <<>> THEN Slice(s, pos, Len(s))
    ELSE Slice(s, pos, Head(ms).from - 1) \o repl
            \o ReSubFrom(s, Head(ms).to + 1, Tail(ms), repl)

\* urllib.parse.unquote_plus
RECURSIVE Unquote(_)
Unquote(s) ==
    IF s = <<>> THEN <<>>
    ELSE IF Head(s) = "%" /\ Len(s) >= 3 /\ IsHex(s[2]) /\ IsHex(s[3])
         THEN <<Chr(16 * HexVal(s[2]) + HexVal(s[3]))>>
                 \o Unquote(Slice(s, 4, Len(s)))
         ELSE <<Head(s)>> \o Unquote(Tail(s))

unquote_plus(s) == Unquote([k \in 1..Len(s) |-> IF s[k] = "+" THEN " " ELSE s[k]])

(***************************************************************************)
(* select_domains(sort_by, q=None, stem_urls=True)                         *)
(***************************************************************************)
MutAddDomainRow(d, domain, id, count) ==
    IF PairIndex(d, domain) = 0
    THEN Append(d, <<domain, [ids |-> <<id>>, count |-> count]>>)
    ELSE [d EXCEPT ![PairIndex(d, domain)] =
            <<domain, [ids |-> Append(@[2].ids, id), count |-> @[2].count]>>]

\* one row of SELECT id, url, visit_count FROM urls added to d
AddDomainRow(d, domain, id, count) ==
    IF PairIndex(d, domain) = 0
    THEN Append(d, <<domain, [ids |-> <<id>>, count |-> count]>>)
    ELSE [d EXCEPT ![PairIndex(d, domain)] =
            <<domain, [ids |-> Append(@[2].ids, id), count |-> @[2].count + count]>>]

RECURSIVE DomainsLoop(_, _, _)
DomainsLoop(urls, ids, d) ==
    IF ids = <<>> THEN d
    ELSE DomainsLoop(urls, Tail(ids),
            AddDomainRow(d, _stem_url(urls[Head(ids)].url), Head(ids),
                         urls[Head(ids)].visit_count))

\* url LIKE '%q%' for a q without the wildcards % and _: q occurs in url,
\* letter case ignored
Like(url, q) ==
    Contains([k \in 1..Len(url) |-> ToLower(url[k])],
             [k \in 1..Len(q) |-> ToLower(q[k])])

\* the rows of the SELECT; q is Null for q = None and <<text>> otherwise
SelectedIds(urls, q) ==
    IF q = Null THEN DOMAIN urls
    ELSE {i \in DOMAIN urls : Like(urls[i].url, q[1])}

select_domains(urls, sort_by, q) ==
    StableSort(DomainsLoop(urls, IdsAsc(SelectedIds(urls, q)), <<>>), sort_by)

(***************************************************************************)
(* search_terms(sort_by, q=None)                                           *)
(***************************************************************************)
InSeq(q, x) == \E k \in 1..Len(q) : q[k] = x

MutAddTermDomain(urls, domain) == Append(urls, domain)

\* if domain not in d[term]['urls']: d[term]['urls'].append(domain)
AddTermDomain(urls, domain) ==
    IF InSeq(urls, domain) THEN urls ELSE Append(urls, domain)

AddTerm(d, term, id, domain, match) ==
    IF PairIndex(d, term) = 0
    THEN Append(d, <<term, [ids |-> <<id>>, count |-> 1, urls |-> <<domain>>,
                            match |-> match]>>)
    ELSE [d EXCEPT ![PairIndex(d, term)] =
            <<term, [ids   |-> Append(@[2].ids, id),
                     count |-> @[2].count + 1,
                     urls  |-> AddTermDomain(@[2].urls, domain),
                     match |-> @[2].match]>>]

\* for match in matches
RECURSIVE MatchesLoop(_, _, _, _)
MatchesLoop(d, id, domain, matches) ==
    IF matches = <<>> THEN d
    ELSE MatchesLoop(AddTerm(d, unquote_plus(Head(matches)), id, domain,
                             Head(matches)),
                     id, domain, Tail(matches))

\* for entry in entries
RECURSIVE EntriesLoop(_, _, _)
EntriesLoop(urls, ids, d) ==
    IF ids = <<>> THEN d
    ELSE EntriesLoop(urls, Tail(ids),
            MatchesLoop(d, Head(ids), _stem_url(urls[Head(ids)].url),
                        Groups(urls[Head(ids)].url, TermChars)))

search_terms(urls, sort_by) ==
    StableSort(EntriesLoop(urls, IdsAsc(DOMAIN urls), <<>>), sort_by)

(***************************************************************************)
(* _hash_domain.  uuid4 is a new value at every call: the k-th call of the *)
(* session returns the k-th salt.  sha256 is taken for a one-way function  *)
(* without collisions and with a hexadecimal digest: here the hexadecimal  *)
(* codes of the characters it is given.                                    *)
(***************************************************************************)
MaxSalt == 2

MutUuid4Hex(draws) == <<HexDigits[2]>>

\* uuid.uuid4().hex of the call after draws earlier ones
Uuid4Hex(draws) == <<HexDigits[draws + 2]>>

Sha256Hex(msg) ==
    [k \in 1..(2 * Len(msg)) |->
        IF k % 2 = 1 THEN HexDigits[(Ord(msg[(k + 1) \div 2]) \div 16) + 1]
        ELSE HexDigits[(Ord(msg[k \div 2]) % 16) + 1]]

_hash_domain(domain, salt) == Sha256Hex(salt \o domain) \o <<"-">> \o salt

\* '{0}-{1}-{2}'.format('anonymisiert', hashed_url, i)
UniqueId(hashed_url, i) == AnonymWord \o hashed_url \o <<"-">> \o Str(i)

(***************************************************************************)
(* _update_db(x, kind)                                                     *)
(***************************************************************************)
MutUpdateRow(row, kind, unique_id) ==
    CASE kind = "keywords" ->
            [row EXCEPT !.url = ReSubFrom(row.url, 1,
                                          FindAll(row.url, 1, UpdateTermChars),
                                          unique_id),
                        !.title = Stars]
      [] kind = "urls" ->
            [row EXCEPT !.url = _stem_url(row.url) \o PathStars,
                        !.title = Stars, !.redirect_urls = Stars]
      [] kind = "domains" ->
            [row EXCEPT !.url = unique_id,
                        !.rev_host = Stars, !.redirect_urls = Stars]

MutUpdateRowHost(row, kind, unique_id) ==
    CASE kind = "keywords" ->
            [row EXCEPT !.url = ReSubFrom(row.url, 1,
                                          FindAll(row.url, 1, UpdateTermChars),
                                          unique_id),
                        !.title = Stars]
      [] kind = "urls" ->
            [row EXCEPT !.url = _stem_url(row.url) \o PathStars, !.title = Stars,
                        !.rev_host = Stars, !.redirect_urls = Stars]
      [] kind = "domains" ->
            [row EXCEPT !.url = unique_id, !.title = Stars,
                        !.rev_host = Stars, !.redirect_urls = Stars]

\* the UPDATE of the row of one identifier
UpdateRow(row, kind, unique_id) ==
    CASE kind = "keywords" ->
            [row EXCEPT !.url = ReSubFrom(row.url, 1,
                                          FindAll(row.url, 1, UpdateTermChars),
                                          unique_id),
                        !.title = Stars]
      [] kind = "urls" ->
            [row EXCEPT !.url = _stem_url(row.url) \o PathStars,
                        !.title = Stars, !.redirect_urls = Stars]
      [] kind = "domains" ->
            [row EXCEPT !.url = unique_id, !.title = Stars,
                        !.rev_host = Stars, !.redirect_urls = Stars]

\* for i in _ids: acc holds the table, the number of salts drawn, the hashes
\* computed and the exception raised, if any
RECURSIVE UpdateLoop(_, _, _)
UpdateHashed(ids, kind, acc, i, url, hashed_url) ==
    UpdateLoop(Tail(ids), kind,
        [urls   |-> [acc.urls EXCEPT ![i] = UpdateRow(@, kind, UniqueId(hashed_url, i))],
         draws  |-> acc.draws + 1,
         issued |-> Append(acc.issued, [domain |-> url, hashed |-> hashed_url,
                                        id |-> i]),
         status |-> acc.status])

MutUpdateEntry(ids, kind, acc, i, url) ==
    UpdateHashed(ids, kind, acc, i, url, _hash_domain(url, Uuid4Hex(acc.draws)))

\* if url: ... else: continue
UpdateEntry(ids, kind, acc, i, url) ==
    IF url = <<>> THEN UpdateLoop(Tail(ids), kind, acc)
    ELSE UpdateHashed(ids, kind, acc, i, url, _hash_domain(url, Uuid4Hex(acc.draws)))

UpdateLoop(ids, kind, acc) ==
    IF ids = <<>> THEN acc
    ELSE IF Head(ids) \notin DOMAIN acc.urls
         THEN [acc EXCEPT !.status = "IndexError"]
         ELSE UpdateEntry(ids, kind, acc, Head(ids),
                          _is_url(acc.urls[Head(ids)].url))

\* the call on the identifier list ids; r is the outcome of the loop
UpdateDone(x, kind, ids, r) ==
    /\ r.draws <= MaxSalt
    /\ db_urls' = r.urls
    /\ salt_draws' = r.draws
    /\ issued' = r.issued
    /\ result' = [status |-> r.status]
    /\ op' = [name |-> "_update_db", kind |-> kind, x |-> x]
    /\ UNCHANGED <<db_visits, _db, _browser_name, _min_date, ready, date_range,
                   num_domains, _domains, _keywords, artifact, uploads, hostVars,
                   fnVars>>

_update_db(x, kind, ids) ==
    UpdateDone(x, kind, ids,
               UpdateLoop(ids, kind, [urls |-> db_urls, draws |-> salt_draws,
                                      issued |-> issued, status |-> "None"]))

(***************************************************************************)
(* The session: imports of small Chrome history files, the aggregations    *)
(* and the anonymization calls, in any order.                              *)
(***************************************************************************)
MaxVisits == 2

UrlSearch ==
    <<"h","t","t","p","s",":","/","/","s","e","a","r","c","h",".","e","x","a","m","p","l","e",".","c","o","m","/","?","q","=","h","e","l","l","o","+","w","o","r","l","d">>
UrlAQQ == UrlAQ \o <<"&","q","=","x">>
SessionUrls == {UrlA, UrlAQQ, UrlSearch}

\* the visit records of the files: every visit is newer than the cutoff
SessionRecords == [url : SessionUrls, t : {DefaultCutoff + 1}, n : {3}, c : {1}]
CountedRecords == [url : SessionUrls, t : {DefaultCutoff + 1}, n : {3, 5}, c : {1}]

Init ==
    /\ utc_offset = 0
    /\ shadow = "copied"
    /\ uploads = EmptyUploads
    /\ InitSession
    /\ fn_arg = <<>>
    /\ fn_res = <<>>

\* the first import of the session, of a file of the records recs
LoadFrom(recs) ==
    /\ _db = "None"
    /\ \E art \in SeqsUpTo(recs, MaxVisits) : load("Chrome", art, 0)

LoadCounted == LoadFrom(CountedRecords)
Load == LoadFrom(SessionRecords)

SelectDomainsFor(sort_by, q) ==
    /\ _domains' = select_domains(db_urls, sort_by, q)
    /\ result' = [status |-> "OrderedDict"]
    /\ op' = [name |-> "select_domains", sort_by |-> sort_by, q |-> q]
    /\ UNCHANGED <<db_urls, db_visits, _db, _browser_name, _min_date, ready,
                   date_range, num_domains, _keywords, artifact, salt_draws,
                   issued, uploads, hostVars, fnVars>>

SelectDomainsBy(sort_by) == SelectDomainsFor(sort_by, Null)

SearchTermsBy(sort_by) ==
    /\ _keywords' = search_terms(db_urls, sort_by)
    /\ result' = [status |-> "OrderedDict"]
    /\ op' = [name |-> "search_terms", sort_by |-> sort_by]
    /\ UNCHANGED <<db_urls, db_visits, _db, _browser_name, _min_date, ready,
                   date_range, num_domains, _domains, artifact, salt_draws,
                   issued, uploads, hostVars, fnVars>>

SelectDomains == \E sort_by \in {"domains", "frequency"} : SelectDomainsBy(sort_by)
SearchTerms == \E sort_by \in {"keywords", "frequency"} : SearchTermsBy(sort_by)

\* visits(date=False, n, ascending, plot=False): od is the selection it
\* returns and total_n the sum of the totals
VisitsReturn(n, ascending, od, total_n) ==
    /\ result' = IF date_range = <<"None", "None">>
                 THEN [status |-> "TypeError"]
                 ELSE IF od # <<>> /\ total_n = 0
                 THEN [status |-> "ZeroDivisionError"]
                 ELSE [status |-> "OrderedDict", od |-> od]
    /\ op' = [name |-> "visits", n |-> n, ascending |-> ascending]
    /\ UNCHANGED <<db_urls, db_visits, _db, _browser_name, _min_date, ready,
                   date_range, num_domains, _domains, _keywords, artifact,
                   salt_draws, issued, uploads, hostVars, fnVars>>

VisitsOn(n, ascending, d) ==
    VisitsReturn(n, ascending, VisitsSelect(d, n, ascending), SumCounts(d))

Visits ==
    \E n \in {Null, <<1>>}, ascending \in BOOLEAN :
        VisitsOn(n, ascending, VisitTotals(db_urls, db_visits))

NextAggregate == LoadCounted \/ SelectDomains \/ SearchTerms \/ Visits
SpecAggregate == Init /\ [][NextAggregate]_vars

\* the URL rows of the domain that have a visit row, and the sum of their
\* visit_count
VisitedOf(urls, visits, domain) ==
    {u \in DOMAIN urls :
        /\ _stem_url(urls[u].url) = domain
        /\ \E v \in DOMAIN visits : visits[v].url_id = u}

RECURSIVE SumVisitCount(_, _)
SumVisitCount(urls, us) ==
    IF us = {} THEN 0
    ELSE urls[Least(us)].visit_count + SumVisitCount(urls, us \ {Least(us)})

\* C2: each total that visits returns is the sum of visit_count over the
\* distinct URL rows of the domain that have a visit row: a URL with several
\* visit rows is counted once.
VisitsCountEachUrlOnce ==
    (op.name = "visits" /\ result.status = "OrderedDict") =>
        \A k \in 1..Len(result.od) :
            result.od[k][2]
              = SumVisitCount(db_urls,
                              VisitedOf(db_urls, db_visits, result.od[k][1]))

\* a URL with two visit rows and visit_count 3 gave its domain the total 3
TwoVisitRowsCountedOnce ==
    /\ op.name = "visits" /\ result.status = "OrderedDict"
    /\ Cardinality(DOMAIN db_urls) = 1
    /\ Cardinality(DOMAIN db_visits) = 2
    /\ \A v \in DOMAIN db_visits : db_visits[v].url_id \in DOMAIN db_urls
    /\ \A u \in DOMAIN db_urls : db_urls[u].visit_count = 3
    /\ Len(result.od) = 1 /\ result.od[1][2] = 3

\* the occurrences of the decoded term in the URL rows: <<id, j>> for the
\* j-th match in the row id
Occurrences(urls, term) ==
    {o \in UNION {{<<u, j>> : j \in 1..Len(Groups(urls[u].url, TermChars))} :
                    u \in DOMAIN urls} :
        unquote_plus(Groups(urls[o[1]].url, TermChars)[o[2]]) = term}

NoDuplicates(q) == \A j, k \in 1..Len(q) : j # k => q[j] # q[k]
Elements(q) == {q[k] : k \in 1..Len(q)}

TermEntryOk(urls, term, entry) ==
    /\ entry.count = Cardinality(Occurrences(urls, term))
    /\ Len(entry.ids) = entry.count
    /\ Elements(entry.ids) = {o[1] : o \in Occurrences(urls, term)}
    /\ NoDuplicates(entry.urls)
    /\ Elements(entry.urls)
         = {_stem_url(urls[o[1]].url) : o \in Occurrences(urls, term)}

\* C9: search_terms returns one entry per percent-decoded term that occurs;
\* its ids are the identifiers of the URL rows where the term matched, one
\* per match, its count is the number of matches, and its domain list holds
\* each stemmed domain where it occurred exactly once.
SearchTermsAggregateByTerm ==
    op.name = "search_terms" =>
        /\ NoDuplicates([k \in 1..Len(_keywords) |-> _keywords[k][1]])
        /\ \A k \in 1..Len(_keywords) :
              TermEntryOk(db_urls, _keywords[k][1], _keywords[k][2])
        /\ \A u \in DOMAIN db_urls :
              \A j \in 1..Len(Groups(db_urls[u].url, TermChars)) :
                 unquote_plus(Groups(db_urls[u].url, TermChars)[j]) \in Keys(_keywords)

HelloWorld == <<"h","e","l","l","o"," ","w","o","r","l","d">>
SearchHost ==
    <<"s","e","a","r","c","h",".","e","x","a","m","p","l","e",".","c","o","m">>

\* the single URL https://search.example.com/?q=hello+world gave the term
\* 'hello world' with count 1 and the domain search.example.com
HelloWorldOnce ==
    /\ op.name = "search_terms"
    /\ Cardinality(DOMAIN db_urls) = 1
    /\ \A u \in DOMAIN db_urls : db_urls[u].url = UrlSearch
    /\ Len(_keywords) = 1
    /\ _keywords[1][1] = HelloWorld
    /\ _keywords[1][2].count = 1
    /\ _keywords[1][2].ids = <<1>>
    /\ _keywords[1][2].urls = <<SearchHost>>

\* the calls of the routes after a selection: the default order
SelectDomainsDefault == SelectDomainsBy("domains")
SearchTermsDefault == SearchTermsBy("keywords")

UpdateDomains ==
    \E k \in 1..Len(_domains) :
        _update_db(_domains[k][1], "domains", _domains[k][2].ids)

UpdateKeywords ==
    \E k \in 1..Len(_keywords) :
        _update_db(_keywords[k][1], "keywords", _keywords[k][2].ids)

\* the identifier lists a selection of entries gives
Selections(urls) == {<<i>> : i \in DOMAIN urls} \cup {IdsAsc(DOMAIN urls)}

UpdateUrls ==
    /\ _db # "None"
    /\ \E x \in Selections(db_urls) : _update_db(Null, "urls", x)

NextAnonymize ==
    \/ Load
    \/ SelectDomainsDefault
    \/ SearchTermsDefault
    \/ UpdateDomains
    \/ UpdateKeywords
    \/ UpdateUrls

SpecAnonymize == Init /\ [][NextAnonymize]_vars

\* the identifiers select_domains listed for the key of an anonymization by
\* domain
Listed == Elements(Get(_domains, op'.x).ids)

\* the hashes computed by the step for the row i
HashedNow(i) ==
    {issued'[e] : e \in {j \in (Len(issued) + 1)..Len(issued') : issued'[j].id = i}}

SameDomainHashedDifferently ==
    \A j, k \in 1..Len(issued) :
        (j # k /\ issued[j].domain = issued[k].domain) =>
            /\ issued[j].hashed # issued[k].hashed
            /\ \A i \in DOMAIN db_urls :
                  UniqueId(issued[j].hashed, i) # UniqueId(issued[k].hashed, i)

\* the same domain has been hashed twice
DomainHashedTwice ==
    \E j, k \in 1..Len(issued) : j # k /\ issued[j].domain = issued[k].domain

(***************************************************************************)
(* Several loads in one session.  Between two loads time passes on the     *)
(* host; a load reads a well-formed history file, a file that lacks the    *)
(* expected structure, or finds no file.                                   *)
(***************************************************************************)
MaxLoadRecs == 1
MaxTicks == 2

LoadsRecords ==
    [url : {UrlA, UrlSearch}, t : {DefaultCutoff + 1, DefaultCutoff + 2},
     n : {3}, c : {1}]

\* the exception a file without the expected structure ends in: the SELECT
\* on a missing table or column (c.execute), d['WebHistoryDates'] on a
\* property list without the key, get_number_of_records() on the None that
\* stands for the missing Containers table
FormatError(kind) ==
    CASE kind = "SafariPlist" -> "KeyError"
      [] kind = "IE11"        -> "AttributeError"
      [] OTHER                -> "OperationalError"

FormatErrors == {FormatError(kind) : kind \in Extractors}

\* load of a file that lacks the structure its first query expects
LoadMalformed(kind, md) ==
    IF kind = "IE11"
    THEN \E copied \in CopyReturns :
            LoadWebCacheFile(DefaultFile(kind), FALSE, <<>>, md, copied)
    ELSE /\ LoadFails(kind, DefaultFile(kind), md, CutoffOf(md), FormatError(kind))
         /\ UNCHANGED uploads

\* load without file_path when _build_path finds no history file:
\* _import_data returns False
LoadNoFile(kind, md) ==
    /\ LoadFails(kind, "None", md, CutoffOf(md), "False")
    /\ UNCHANGED uploads

InitLoads ==
    /\ utc_offset = 0
    /\ shadow = "copied"
    /\ uploads = EmptyUploads
    /\ InitSession
    /\ fn_arg = <<>>
    /\ fn_res = <<>>

\* time passes on the host
Tick ==
    /\ clock < ClockStart + MaxTicks
    /\ clock' = clock + 1
    /\ UNCHANGED <<sessionVars, utc_offset, shadow, fnVars>>

LoadHistory ==
    \E kind \in {"Chrome", "SafariPlist"}, md \in {0, GivenCutoff} :
        \E art \in SeqsUpTo(LoadsRecords, MaxLoadRecs) : load(kind, art, md)

LoadMalformedFile ==
    \E kind \in Extractors, md \in {0, GivenCutoff} : LoadMalformed(kind, md)

LoadNotFound ==
    \E kind \in Extractors, md \in {0, GivenCutoff} : LoadNoFile(kind, md)

NextLoads == Tick \/ LoadHistory \/ LoadMalformedFile \/ LoadNotFound
SpecLoads == InitLoads /\ [][NextLoads]_vars

\* C11: a load of a file that does not have the expected structure returns
\* False: no load ends in the exception of a missing table, column, key or
\* container table.
FormatFailureReturnsFalse ==
    op.name = "load" => result.status \notin FormatErrors

\* C13: the cutoff of a load is the min_date it is given, and 60 days before
\* the time of the call when it is given none, whatever the earlier loads
\* were given.
CutoffIsPerImport ==
    [][(op'.name = "load" /\ clock' = clock) =>
          _min_date' = IF op'.min_date # 0 THEN op'.min_date
                       ELSE MinDateAt(clock, NumDays)]_vars

\* C20: ready is True only if the most recent load returned True.
ReadyOnlyAfterSuccessfulLoad ==
    (op.name = "load" /\ ready) => result.status = "True"

(***************************************************************************)
(* Anonymization of a selection of entries: the identifiers are the values *)
(* of the posted form, which may name rows the store does not hold.        *)
(***************************************************************************)
\* the identifier lists of a posted selection: up to MaxVisits identifiers,
\* none twice, of the rows a store can hold and one more
SelectionLists ==
    {q \in SeqsUpTo(1..(MaxVisits + 1), MaxVisits) : q # <<>> /\ NoDuplicates(q)}

UpdateSelection ==
    /\ _db # "None"
    /\ \E x \in SelectionLists : _update_db(x, "urls", x)

NextBatch == Load \/ UpdateSelection
SpecBatch == Init /\ [][NextBatch]_vars

\* C12: in a call on several identifiers, every identifier of the selection
\* that has a navigable row is mutated, whether or not the update of an
\* earlier identifier failed.
UpdateContinuesAfterFailure ==
    [][(op'.name = "_update_db" /\ op'.kind = "urls") =>
        \A k \in 1..Len(op'.x) :
            (op'.x[k] \in DOMAIN db_urls /\ IsNavigable(db_urls[op'.x[k]].url)) =>
                /\ db_urls'[op'.x[k]].title = Stars
                /\ db_urls'[op'.x[k]].url
                      = _stem_url(db_urls[op'.x[k]].url) \o PathStars]_vars

(***************************************************************************)
(* visits(n, ascending) on stores whose URL rows have small visit counts,  *)
(* zero included.                                                          *)
(***************************************************************************)
MaxCount == 2
MaxN == 2

SmallCountRecords ==
    [url : {UrlA, UrlSearch}, t : {DefaultCutoff + 1}, n : 0..MaxCount, c : {1}]

LoadSmallCounts == LoadFrom(SmallCountRecords)

VisitsTopOrLeast ==
    \E n \in {Null} \cup {<<k>> : k \in 0..MaxN}, ascending \in BOOLEAN :
        VisitsOn(n, ascending, VisitTotals(db_urls, db_visits))

NextVisits == LoadSmallCounts \/ VisitsTopOrLeast
SpecVisits == Init /\ [][NextVisits]_vars

\* the stemmed domains that have a visit row, and the total of one
VisitedDomains(urls, visits) ==
    {_stem_url(urls[visits[v].url_id].url) :
        v \in {w \in DOMAIN visits : visits[w].url_id \in DOMAIN urls}}

DomainTotal(urls, visits, domain) ==
    SumVisitCount(urls, VisitedOf(urls, visits, domain))

\* the number of domains visits(n, ...) is to return
Wanted(n, domains) ==
    IF n = Null THEN Cardinality(domains)
    ELSE IF n[1] < Cardinality(domains) THEN n[1] ELSE Cardinality(domains)

\* C14: visits(n, ascending) returns min(n, number of domains) domains, all
\* of them for n = None: those with the highest totals when ascending is
\* False and those with the lowest when it is True; and the num_domains a
\* successful load sets is the number of domains that have visits.
VisitsSelectsByTotal ==
    /\ (op.name = "visits" /\ date_range # <<"None", "None">>) =>
          /\ result.status = "OrderedDict"
          /\ Len(result.od) = Wanted(op.n, VisitedDomains(db_urls, db_visits))
          /\ NoDuplicates([k \in 1..Len(result.od) |-> result.od[k][1]])
          /\ \A k \in 1..Len(result.od) :
                /\ result.od[k][1] \in VisitedDomains(db_urls, db_visits)
                /\ \A dom \in VisitedDomains(db_urls, db_visits) \ Keys(result.od) :
                      IF op.ascending
                      THEN DomainTotal(db_urls, db_visits, dom) >= result.od[k][2]
                      ELSE DomainTotal(db_urls, db_visits, dom) <= result.od[k][2]
    /\ (op.name = "load" /\ result.status = "True") =>
          num_domains = Cardinality(VisitedDomains(db_urls, db_visits))

(***************************************************************************)
(* Anonymization by keyword of URLs with one or two query parameters, one  *)
(* of them with a dot in its value.                                        *)
(***************************************************************************)
UrlDotted == UrlA \o <<"?","q","=","x",".","y">>

KeywordRecords ==
    [url : {UrlSearch, UrlAQQ, UrlDotted}, t : {DefaultCutoff + 1}, n : {3}, c : {1}]

LoadKeywordUrls == LoadFrom(KeywordRecords)

NextKeywords == LoadKeywordUrls \/ SearchTerms \/ UpdateKeywords
SpecKeywords == Init /\ [][NextKeywords]_vars

\* the url with the value of every parameter whose decoded value is term
\* replaced by repl, and nothing else changed
TermReplaced(url, term, repl) ==
    LET IsTerm(m) == unquote_plus(SubSeq(url, m.grp, m.to)) = term
        ms == SelectSeq(FindAll(url, 1, TermChars), IsTerm)
    IN  ReSubFrom(url, 1,
                  [k \in 1..Len(ms) |-> [from |-> ms[k].grp, grp |-> ms[k].grp,
                                         to |-> ms[k].to]],
                  repl)

\* C15: anonymizing by keyword replaces, in every listed navigable row, the
\* value of the matched query parameter by the placeholder and sets the title
\* to '***'; the rest of the url, the parameter name included, stays as it
\* was.
KeywordUpdateReplacesOnlyTheTerm ==
    [][(op'.name = "_update_db" /\ op'.kind = "keywords") =>
        \A i \in Elements(Get(_keywords, op'.x).ids) :
            IsNavigable(db_urls[i].url) =>
                /\ db_urls'[i].title = Stars
                /\ \E h \in HashedNow(i) :
                      db_urls'[i].url
                        = TermReplaced(db_urls[i].url, op'.x,
                                       UniqueId(h.hashed, i))]_vars

(***************************************************************************)
(* select_domains with and without the filter q                            *)
(***************************************************************************)
\* the texts of the filter
Filters == {<<"q">>, <<"a", ".", "b">>, <<"E", "x">>}

SelectDomainsFiltered ==
    \E sort_by \in {"domains", "frequency"}, q \in {Null} \cup {<<f>> : f \in Filters} :
        SelectDomainsFor(sort_by, q)

NextSelect == LoadCounted \/ SelectDomainsFiltered
SpecSelect == Init /\ [][NextSelect]_vars

\* the positions of the identifier i in the ids lists of the result
ListedAt(i) ==
    {<<k, j>> \in (1..Len(_domains)) \X (1..(1 + Cardinality(DOMAIN db_urls))) :
        j <= Len(_domains[k][2].ids) /\ _domains[k][2].ids[j] = i}

\* C16: select_domains lists the identifier of every URL row that matches
\* the filter exactly once, in the ids of its stemmed domain, and no other
\* identifier; the count of a domain is the sum of visit_count over its ids;
\* the domains are in ascending order of name, or in descending order of
\* count for sort_by 'frequency'.
SelectDomainsGroupsByStem ==
    op.name = "select_domains" =>
        /\ \A i \in SelectedIds(db_urls, op.q) :
              /\ Cardinality(ListedAt(i)) = 1
              /\ \A at \in ListedAt(i) :
                    _domains[at[1]][1] = _stem_url(db_urls[i].url)
        /\ \A k \in 1..Len(_domains) :
              /\ Elements(_domains[k][2].ids) \subseteq SelectedIds(db_urls, op.q)
              /\ _domains[k][2].count
                    = SumVisitCount(db_urls, Elements(_domains[k][2].ids))
        /\ \A k, m \in 1..Len(_domains) :
              k < m => IF op.sort_by = "frequency"
                       THEN _domains[k][2].count >= _domains[m][2].count
                       ELSE StrLess(_domains[k][1], _domains[m][1])

\* a filtered selection has put two URL rows with the counts 3 and 5 under
\* their common domain a.b, with the count 8
TwoRowsUnderOneDomain ==
    /\ op.name = "select_domains" /\ op.q # Null
    /\ Cardinality(DOMAIN db_urls) = 2
    /\ Len(_domains) = 1
    /\ _domains[1][1] = <<"a", ".", "b">>
    /\ _domains[1][2].ids = <<1, 2>>
    /\ _domains[1][2].count = 8

(***************************************************************************)
(* Identifiers of the property-list extractor                              *)
(***************************************************************************)
\* the entries of the property list the extractor accepts
PlistAccepted(art, min_date) ==
    {j \in 1..Len(art) :
        /\ IsNavigable(art[j].url)
        /\ _convert_timestamp(SrcTime(art, j, "Safari"), "Safari") >= min_date}

\* C17: after the import of a property list there is one URL row per URL
\* value of the accepted entries, and the visits of entries with the same
\* URL value carry the same URL identifier.
PlistOneIdPerUrl ==
    (op.name = "load" /\ op.kind = "SafariPlist") =>
        /\ Cardinality(DOMAIN db_urls)
             = Cardinality({artifact[j].url : j \in PlistAccepted(artifact, _min_date)})
        /\ \A v, w \in DOMAIN db_visits :
              db_urls[db_visits[v].url_id].url = db_urls[db_visits[w].url_id].url
                 => db_visits[v].url_id = db_visits[w].url_id

(***************************************************************************)
(* WebCache files with two History containers.  The records of a container *)
(* follow each other in the file, and the containers come in the order of  *)
(* the Containers table.                                                   *)
(***************************************************************************)
MaxEntries == 11

\* the ids of the two History containers
ContainerIds == {1, 11}

\* the URL of the k-th record: every record has a URL of its own
PageUrl(k) == UrlA \o Str(k)

\* the file of len records whose first split records are in the container
\* first and the others in the container second
ContainerFile(len, split, first, second) ==
    [j \in 1..len |->
        [url |-> PageUrl(j), t |-> DefaultCutoff + 1, n |-> 3,
         c |-> IF j <= split THEN first ELSE second]]

ContainerFiles ==
    {ContainerFile(len, split, first, second) :
        len \in 0..MaxEntries, split \in 0..MaxEntries,
        first \in ContainerIds, second \in ContainerIds}

LoadContainers ==
    /\ op.name = "init"
    /\ \E md \in {0, GivenCutoff} :
         \E art \in ContainerFiles : load("IE11", art, md)

NextContainers == LoadContainers
SpecContainers == InitImport /\ [][NextContainers]_vars

\* C18: the visit records one extraction of a WebCache file emits have
\* pairwise different keys, and each of them is a row of the visits table
\* after the import.
WebCacheVisitKeysUnique ==
    (op.name = "load" /\ op.kind = "IE11") =>
        /\ \A j, k \in 1..Len(_extract_webcachev01_dat(artifact, _min_date).visits) :
              j # k => _extract_webcachev01_dat(artifact, _min_date).visits[j].id
                         # _extract_webcachev01_dat(artifact, _min_date).visits[k].id
        /\ Cardinality(DOMAIN db_visits)
             = Len(_extract_webcachev01_dat(artifact, _min_date).visits)

(***************************************************************************)
(* The input of the WebCache extractor on hosts where the shadow copy      *)
(* works, is not available, or fails while copying, with and without       *)
(* staged copies in the upload directory.                                  *)
(***************************************************************************)
ShadowOutcomes == {"copied", "unavailable", "copy_failed"}

\* the record of a live file, and the one record of a staged copy
LiveRecords == [url : {UrlA, UrlAQ}, t : {DefaultCutoff + 1}, n : {3}, c : {1}]

StagedArt(f) ==
    <<[url |-> UrlA \o <<"s">> \o (IF f = WebCacheV01 THEN <<"x">> ELSE <<"y">>),
       t |-> DefaultCutoff + 1, n |-> 3, c |-> 1]>>

StagedUploads(S) ==
    [f \in WebCacheNames |->
        IF f \in S THEN [present |-> TRUE, ok |-> TRUE, art |-> StagedArt(f)]
        ELSE NoFile]

InitWebCache ==
    /\ utc_offset = 0
    /\ shadow \in ShadowOutcomes
    /\ uploads \in {StagedUploads(S) : S \in SUBSET WebCacheNames}
    /\ InitSession
    /\ fn_arg = <<>>
    /\ fn_res = <<>>

LoadWebCacheFrom ==
    \E file \in WebCacheNames, copied \in CopyReturns :
        \E art \in SeqsUpTo(LiveRecords, MaxLoadRecs), md \in {0, GivenCutoff} :
            LoadWebCacheFile(file, TRUE, art, md, copied)

NextWebCache == LoadWebCacheFrom
SpecWebCache == InitWebCache /\ [][NextWebCache]_vars

\* C19: a load of a WebCache file reads the copy when the shadow copy step
\* copied the file; reads a staged WebCacheV01.dat or WebCacheV24.dat when
\* the step made no copy and one of them is in the upload directory; returns
\* False when there is neither; and never raises.
WebCacheInputResolvedInOrder ==
    [][(op'.name = "load" /\ op'.kind = "IE11") =>
        /\ result'.status \in {"True", "False"}
        /\ shadow = "copied" =>
              /\ result'.status = "True"
              /\ artifact' = uploads'[op'.file].art
        /\ (shadow # "copied" /\ uploads[WebCacheV01].present) =>
              /\ result'.status = "True"
              /\ artifact' = uploads[WebCacheV01].art
        /\ (shadow # "copied" /\ ~uploads[WebCacheV01].present
                              /\ uploads[WebCacheV24].present) =>
              /\ result'.status = "True"
              /\ artifact' = uploads[WebCacheV24].art
        /\ (shadow # "copied" /\ ~uploads[WebCacheV01].present
                              /\ ~uploads[WebCacheV24].present) =>
              result'.status = "False"]_vars

(***************************************************************************)
(* Several imports in one session with domain selections and               *)
(* anonymizations between them: load assigns neither _domains nor          *)
(* _keywords.                                                              *)
(***************************************************************************)
\* an import at any time of the session: the index route calls load on the
\* one BrowsingHistory object of the process
Reload == \E art \in SeqsUpTo(SessionRecords, MaxVisits) : load("Chrome", art, 0)

NextReload ==
    \/ Reload
    \/ SelectDomainsDefault
    \/ UpdateDomains
    \/ UpdateUrls

SpecReload == Init /\ [][NextReload]_vars

\* C21: an anonymization by the domain key D changes only rows of the store
\* whose stemmed domain is D when the call is made.
AnonymizeDomainUsesCurrentIds ==
    [][(op'.name = "_update_db" /\ op'.kind = "domains") =>
        /\ DOMAIN db_urls' = DOMAIN db_urls
        /\ \A i \in DOMAIN db_urls :
              db_urls'[i] # db_urls[i] => _stem_url(db_urls[i].url) = op'.x]_vars

(***************************************************************************)
(* Rows that have been anonymized by domain or as entries.                 *)
(***************************************************************************)
\* the UPDATEs of the kinds 'domains' and 'urls', and no import, set
\* redirect_urls to '***'
RowAnonymized(row) == row.redirect_urls = Stars

\* C22: a row anonymized by domain or as an entry holds a url that is not
\* navigable, and no later anonymization call of any kind changes the row.
AnonymizedRowsAreSkipped ==
    [][op'.name = "_update_db" =>
        \A i \in DOMAIN db_urls :
            RowAnonymized(db_urls[i]) =>
                /\ ~IsNavigable(db_urls[i].url)
                /\ i \in DOMAIN db_urls'
                /\ db_urls'[i] = db_urls[i]]_vars

\* the last call anonymized by a domain whose listed row had been anonymized
\* as an entry before: the row holds 'domain/***'
AnonymizedEntryListedAgain ==
    /\ op.name = "_update_db" /\ op.kind = "domains"
    /\ \E i \in Elements(Get(_domains, op.x).ids) :
          /\ i \in DOMAIN db_urls
          /\ RowAnonymized(db_urls[i])
          /\ db_urls[i].url = op.x \o PathStars

(***************************************************************************)
(* What an anonymization call leaves alone: sessions of one import, the    *)
(* two aggregations and anonymizations by domain, by search term and of a  *)
(* posted selection of entries.                                            *)
(***************************************************************************)
\* the entries route: the posted list is the argument x of the call
UpdateListed ==
    /\ _db # "None"
    /\ \E x \in Selections(db_urls) : _update_db(x, "urls", x)

\* the files imported: URLs of two domains, each with a search term
FrameRecords ==
    [url : {UrlAQ, UrlSearch}, t : {DefaultCutoff + 1}, n : {3}, c : {1}]

LoadFrame == LoadFrom(FrameRecords)

NextFrame ==
    \/ LoadFrame
    \/ SelectDomainsDefault
    \/ SearchTermsDefault
    \/ UpdateDomains
    \/ UpdateKeywords
    \/ UpdateListed

SpecFrame == Init /\ [][NextFrame]_vars

\* the columns the UPDATE statement of a kind sets
UpdatedColumns(kind) ==
    CASE kind = "keywords" -> {"url", "title"}
      [] kind = "urls"     -> {"url", "title", "redirect_urls"}
      [] kind = "domains"  -> {"url", "title", "rev_host", "redirect_urls"}

\* the identifier list of the call the step makes
CallIds ==
    CASE op'.kind = "keywords" -> Get(_keywords, op'.x).ids
      [] op'.kind = "urls"     -> op'.x
      [] op'.kind = "domains"  -> Get(_domains, op'.x).ids

\* C23: an anonymization call inserts and deletes no row, changes no visit
\* row and no URL row outside its identifier list, and in the rows of the
\* list changes only the columns its kind updates.
AnonymizeChangesOnlyItsColumns ==
    [][op'.name = "_update_db" =>
        /\ db_visits' = db_visits
        /\ DOMAIN db_urls' = DOMAIN db_urls
        /\ \A i \in DOMAIN db_urls :
              /\ i \notin Elements(CallIds) => db_urls'[i] = db_urls[i]
              /\ \A col \in (DOMAIN db_urls[i]) \ UpdatedColumns(op'.kind) :
                    db_urls'[i][col] = db_urls[i][col]]_vars

\* an anonymization of a selection has changed a row of the selection and
\* the store holds a row outside the selection with its source title
SelectedRowChangedOtherKept ==
    /\ op.name = "_update_db" /\ op.kind = "urls"
    /\ \E i \in Elements(op.x) \cap DOMAIN db_urls :
          /\ db_urls[i].title = Stars
          /\ db_urls[i].visit_count = 3
    /\ \E j \in (DOMAIN db_urls) \ Elements(op.x) : db_urls[j].title = SrcTitle

=============================================================================
